---- MODULE Spec2Model ----
(***************************************************************************)
(* token-helpers: createAssociatedTokenAccountInstructions,                *)
(* createAssociatedTokenAccount and createAndConfirmAssociatedTokenAccount *)
(* (src/src/index.ts), run by concurrent callers against one ledger.       *)
(*                                                                         *)
(* The ledger side (the associated-token-account program, the token        *)
(* programs, the Token-ACL permissionless thaw and the send/confirm        *)
(* facility) is the environment the helpers call into; it is modelled by   *)
(* the behaviour the repository's tests observe.                           *)
(***************************************************************************)
EXTENDS Integers, Sequences, FiniteSets, TLC

VARIABLES
    accounts,   \* ledger: token account stored at each address, or NoAccount
    pending,    \* transactions sent to the cluster and not yet processed
    status,     \* per signature: "none", "ok" (confirmed) or "err" (failed on chain)
    created,    \* signatures of the transactions that created an account
    calls,      \* per caller: the running (or finished) helper call
    nCalls      \* helper calls made so far; the next signature

vars == <<accounts, pending, status, created, calls, nCalls>>

---------------------------------------------------------------------------
(* Bounds *)

MaxCalls == 2
MaxConfirmCalls == 3
NumOwners == 1
MaxPreExisting == 1
PreExistingAmount == 1

Procs == {"a", "b"}
Owners == 1..NumOwners
Payer == 0
Signatures == 1..(IF MaxCalls > MaxConfirmCalls THEN MaxCalls ELSE MaxConfirmCalls)

---------------------------------------------------------------------------
(* Program addresses and the mints on the ledger *)

TOKEN_PROGRAM_ADDRESS == "TokenProgram"
TOKEN_2022_PROGRAM_ADDRESS == "Token2022Program"
OTHER_PROGRAM_ADDRESS == "SystemProgram"
NO_PROGRAM == "NoProgram"

Programs == {TOKEN_PROGRAM_ADDRESS, TOKEN_2022_PROGRAM_ADDRESS, OTHER_PROGRAM_ADDRESS}

Mints == {"mintKeg", "mint2022", "mintAcl", "mintOther", "mintMissing"}

\* The account fetchEncodedAccount finds at a mint address.
MintAccount(m) ==
    CASE m = "mintKeg" ->
           [exists |-> TRUE, programAddress |-> TOKEN_PROGRAM_ADDRESS,
            data |-> [tokenAcl |-> FALSE, defaultState |-> "Initialized"]]
      [] m = "mint2022" ->
           [exists |-> TRUE, programAddress |-> TOKEN_2022_PROGRAM_ADDRESS,
            data |-> [tokenAcl |-> FALSE, defaultState |-> "Initialized"]]
      [] m = "mintAcl" ->
           [exists |-> TRUE, programAddress |-> TOKEN_2022_PROGRAM_ADDRESS,
            data |-> [tokenAcl |-> TRUE, defaultState |-> "Frozen"]]
      [] m = "mintOther" ->
           [exists |-> TRUE, programAddress |-> OTHER_PROGRAM_ADDRESS,
            data |-> [tokenAcl |-> FALSE, defaultState |-> "Initialized"]]
      [] OTHER ->
           [exists |-> FALSE, programAddress |-> NO_PROGRAM,
            data |-> [tokenAcl |-> FALSE, defaultState |-> "Initialized"]]

\* findAssociatedTokenPda: the address is a function of (owner, mint, token program).
findAssociatedTokenPda(owner, mint, tokenProgram) == <<owner, mint, tokenProgram>>

NoAddress == <<-1, "none", NO_PROGRAM>>
Wallets == Owners \cup {Payer}
TokenPrograms == {TOKEN_PROGRAM_ADDRESS, TOKEN_2022_PROGRAM_ADDRESS}
TokenMints == {m \in Mints : MintAccount(m).exists}
\* The addresses followed on the ledger; nothing is ever stored elsewhere.
Addresses == Wallets \X TokenMints \X TokenPrograms

NoAccount == [exists |-> FALSE, programAddress |-> NO_PROGRAM, owner |-> -1,
              mint |-> "none", amount |-> 0, state |-> "Uninitialized", creator |-> -1]

---------------------------------------------------------------------------
(* createAssociatedTokenAccountInstructions *)

InvalidMintError == "Provided mintAddress is not a valid token mint"
SimulationFailedError == "The transaction failed in simulation"
NoError == "none"

IdempotentArgs == {"true", "false", "omitted"}

\* Mutant: the default of the parameter is true.
DefaultIdempotent_True(arg) == arg /= "false"

\* `idempotent: boolean = false`: the argument as the caller wrote it
\* ("true", "false" or "omitted") and the value the function body sees.
DefaultIdempotent(arg) == IF arg = "omitted" THEN FALSE ELSE arg = "true"

\* Mutant: the guard only asks whether the account exists.
MintAccountIsValid_ExistsOnly(mintAccount) == mintAccount.exists

\* The negation of the guard that throws InvalidMintError.
MintAccountIsValid(mintAccount) ==
    ~(~mintAccount.exists
      \/ (mintAccount.programAddress /= TOKEN_2022_PROGRAM_ADDRESS
          /\ mintAccount.programAddress /= TOKEN_PROGRAM_ADDRESS))

\* Mutant: the plain builder is the idempotent one under another name.
getCreateAssociatedTokenInstruction_Idempotent(ata, mint, owner, payer, tokenProgram) ==
    [kind |-> "createIdempotent", ata |-> ata, mint |-> mint, owner |-> owner,
     payer |-> payer, tokenProgram |-> tokenProgram, idempotent |-> TRUE]

getCreateAssociatedTokenInstruction(ata, mint, owner, payer, tokenProgram) ==
    [kind |-> "create", ata |-> ata, mint |-> mint, owner |-> owner,
     payer |-> payer, tokenProgram |-> tokenProgram, idempotent |-> FALSE]

getCreateAssociatedTokenIdempotentInstruction(ata, mint, owner, payer, tokenProgram) ==
    [kind |-> "createIdempotent", ata |-> ata, mint |-> mint, owner |-> owner,
     payer |-> payer, tokenProgram |-> tokenProgram, idempotent |-> TRUE]

\* Mutant: the flag is ignored and the idempotent instruction always built.
createAtaInstruction_AlwaysIdempotent(idempotent, ata, mint, owner, payer, tokenProgram) ==
    [kind |-> "createIdempotent", ata |-> ata, mint |-> mint, owner |-> owner,
     payer |-> payer, tokenProgram |-> tokenProgram, idempotent |-> TRUE]

createAtaInstruction(idempotent, ata, mint, owner, payer, tokenProgram) ==
    IF idempotent
    THEN getCreateAssociatedTokenIdempotentInstruction(ata, mint, owner, payer, tokenProgram)
    ELSE getCreateAssociatedTokenInstruction(ata, mint, owner, payer, tokenProgram)

isTokenAclMintFromMint(mint) == mint.tokenAcl

\* Mutant: the idempotent flag is not forwarded to the thaw builder.
createThawPermissionlessInstructionFromMint_NoFlag(mint, mintAddress, owner, ata, payer, idempotent) ==
    [kind |-> "thaw", ata |-> ata, mint |-> mintAddress, owner |-> owner,
     payer |-> payer, tokenProgram |-> TOKEN_2022_PROGRAM_ADDRESS,
     idempotent |-> FALSE]

createThawPermissionlessInstructionFromMint(mint, mintAddress, owner, ata, payer, idempotent) ==
    [kind |-> "thaw", ata |-> ata, mint |-> mintAddress, owner |-> owner,
     payer |-> payer, tokenProgram |-> TOKEN_2022_PROGRAM_ADDRESS,
     idempotent |-> idempotent]

\* Mutant: the thaw instruction is put before the create instruction.
assembleInstructions_ThawFirst(tokenProgram, mintData, createIx, mintAddress, owner, ata, payer, idempotent) ==
    IF tokenProgram = TOKEN_PROGRAM_ADDRESS \/ ~isTokenAclMintFromMint(mintData)
    THEN <<createIx>>
    ELSE <<createThawPermissionlessInstructionFromMint(
               mintData, mintAddress, owner, ata, payer, idempotent),
           createIx>>

\* Mutant: a Token-ACL mint is treated like any Token-2022 mint.
assembleInstructions_NoThaw(tokenProgram, mintData, createIx, mintAddress, owner, ata, payer, idempotent) ==
    <<createIx>>

\* The instruction list of a mint that passed the validity guard. The ledger
\* keeps the mint's data decoded, so `mint` is the decoded mintAccount.data.
assembleInstructions(tokenProgram, mintData, createIx, mintAddress, owner, ata, payer, idempotent) ==
    IF tokenProgram = TOKEN_PROGRAM_ADDRESS
    THEN <<createIx>>
    ELSE LET mint == mintData IN
         IF ~isTokenAclMintFromMint(mint)
         THEN <<createIx>>
         ELSE <<createIx,
                createThawPermissionlessInstructionFromMint(
                    mint, mintAddress, owner, ata, payer, idempotent)>>

createAssociatedTokenAccountInstructions(payer, owner, mintAddress, idempotent) ==
    LET mintAccount == MintAccount(mintAddress) IN
    IF ~MintAccountIsValid(mintAccount)
    THEN [ok |-> FALSE, error |-> InvalidMintError,
          instructions |-> <<>>, associatedTokenAddress |-> NoAddress]
    ELSE LET tokenProgram == mintAccount.programAddress
             associatedTokenAddress == findAssociatedTokenPda(owner, mintAddress, tokenProgram)
             createIx == createAtaInstruction(idempotent, associatedTokenAddress,
                                              mintAddress, owner, payer, tokenProgram)
         IN [ok |-> TRUE, error |-> NoError,
             instructions |-> assembleInstructions(tokenProgram, mintAccount.data, createIx,
                                  mintAddress, owner, associatedTokenAddress, payer, idempotent),
             associatedTokenAddress |-> associatedTokenAddress]

---------------------------------------------------------------------------
(* The ledger: how the cluster executes the instructions of a transaction *)

\* CreateAssociatedToken / CreateAssociatedTokenIdempotent of the
\* associated-token-account program.
ExecCreate(accts, ix, sig) ==
    LET mintAccount == MintAccount(ix.mint)
        seedsOk == /\ ix.ata \in Addresses
                   /\ ix.ata = findAssociatedTokenPda(ix.owner, ix.mint, ix.tokenProgram)
                   /\ mintAccount.exists
                   /\ mintAccount.programAddress = ix.tokenProgram
    IN IF ~seedsOk
       THEN [ok |-> FALSE, accounts |-> accts]
       ELSE IF accts[ix.ata].exists
       THEN [ok |-> /\ ix.kind = "createIdempotent"
                    /\ accts[ix.ata].owner = ix.owner
                    /\ accts[ix.ata].mint = ix.mint
                    /\ accts[ix.ata].programAddress = ix.tokenProgram,
             accounts |-> accts]
       ELSE [ok |-> TRUE,
             accounts |-> [accts EXCEPT ![ix.ata] =
                 [exists |-> TRUE, programAddress |-> ix.tokenProgram,
                  owner |-> ix.owner, mint |-> ix.mint, amount |-> 0,
                  state |-> mintAccount.data.defaultState, creator |-> sig]]]

\* Token-ACL's permissionless thaw (plain or idempotent).
ExecThaw(accts, ix) ==
    IF ~(ix.ata \in Addresses /\ accts[ix.ata].exists
         /\ accts[ix.ata].mint = ix.mint /\ accts[ix.ata].owner = ix.owner)
    THEN [ok |-> FALSE, accounts |-> accts]
    ELSE IF accts[ix.ata].state = "Frozen"
    THEN [ok |-> TRUE, accounts |-> [accts EXCEPT ![ix.ata].state = "Initialized"]]
    ELSE [ok |-> ix.idempotent, accounts |-> accts]

ExecInstruction(accts, ix, sig) ==
    IF ix.kind = "thaw" THEN ExecThaw(accts, ix) ELSE ExecCreate(accts, ix, sig)

\* A transaction is atomic: every instruction succeeds or the ledger is unchanged.
RECURSIVE ExecFrom(_, _, _, _)
ExecFrom(accts, ixs, i, sig) ==
    IF i > Len(ixs)
    THEN [ok |-> TRUE, accounts |-> accts]
    ELSE LET r == ExecInstruction(accts, ixs[i], sig) IN
         IF r.ok THEN ExecFrom(r.accounts, ixs, i + 1, sig)
         ELSE [ok |-> FALSE, accounts |-> accts]

ExecTransaction(accts, tx) ==
    LET r == ExecFrom(accts, tx.instructions, 1, tx.sig) IN
    IF r.ok THEN r ELSE [ok |-> FALSE, accounts |-> accts]

---------------------------------------------------------------------------
(* The helper calls *)

Functions == {"createAssociatedTokenAccountInstructions",
              "createAssociatedTokenAccount",
              "createAndConfirmAssociatedTokenAccount"}

PREFLIGHT_FAILURE == "SOLANA_ERROR__JSON_RPC__SERVER_ERROR_SEND_TRANSACTION_PREFLIGHT_FAILURE"
TRANSACTION_ERROR == "SOLANA_ERROR__INSTRUCTION_ERROR__CUSTOM"
TRANSPORT_ERROR == "SOLANA_ERROR__RPC__TRANSPORT_HTTP_ERROR"

IdleCall ==
    [id |-> 0, fn |-> "none", owner |-> -1, mint |-> "none", idempotent |-> "omitted",
     pc |-> "idle", instructions |-> <<>>, associatedTokenAddress |-> NoAddress,
     blockhashes |-> 0, signs |-> 0, sends |-> 0, signature |-> 0,
     thrown |-> NoError, error |-> NoError, pre |-> -1]

Finished(c) == c.pc \in {"idle", "returned", "failed"}

\* The address the ledger keeps (owner, mint)'s associated token account at,
\* NoAddress for a mint no token program owns.
LedgerAta(owner, mint) ==
    IF MintAccount(mint).exists /\ MintAccount(mint).programAddress \in
           {TOKEN_PROGRAM_ADDRESS, TOKEN_2022_PROGRAM_ADDRESS}
    THEN findAssociatedTokenPda(owner, mint, MintAccount(mint).programAddress)
    ELSE NoAddress

\* Who created the account found at an address: -1 none, 0 it was there
\* before any helper call, k > 0 the transaction of call k.
CreatorAt(accts, addr) == IF addr \in Addresses THEN accts[addr].creator ELSE -1

\* Mutant: the catch block rethrows whatever it caught.
CatchSendError_Rethrow(e) == e

\* The catch block around the send: what the caller receives for what was thrown.
CatchSendError(e) == IF e = PREFLIGHT_FAILURE THEN SimulationFailedError ELSE e

\* Mutant: the catch block starts over from the blockhash.
AfterSendError_Retry == "blockhash"

\* Where a call stands once the catch block has run.
AfterSendError == "failed"

\* Mutant: both functions use sendTransactionWithoutConfirmingFactory.
AfterSend_WithoutConfirming(fn) == "returned"

\* Where a call stands once the send facility has resolved:
\* sendTransactionWithoutConfirmingFactory resolves when the transaction is
\* sent, sendAndConfirmTransactionFactory waits for its confirmation.
AfterSend(fn) ==
    IF fn = "createAssociatedTokenAccount" THEN "returned" ELSE "confirming"

\* A caller invokes one of the three exported functions.
Invoke(p, fn, owner, mint, arg, limit) ==
    /\ Finished(calls[p])
    /\ nCalls < limit
    /\ nCalls' = nCalls + 1
    /\ calls' = [calls EXCEPT ![p] =
           [IdleCall EXCEPT !.id = nCalls + 1, !.fn = fn, !.owner = owner,
                            !.mint = mint, !.idempotent = arg, !.pc = "instructions",
                            !.pre = CreatorAt(accounts, LedgerAta(owner, mint))]]
    /\ UNCHANGED <<accounts, pending, status, created>>

Call(p, fn, owner, mint, arg) == Invoke(p, fn, owner, mint, arg, MaxCalls)

\* A caller that only ever uses createAndConfirmAssociatedTokenAccount.
CallAndConfirm(p, owner, mint, arg) ==
    Invoke(p, "createAndConfirmAssociatedTokenAccount", owner, mint, arg, MaxConfirmCalls)

\* await createAssociatedTokenAccountInstructions(...): the exported function
\* itself returns or throws here, the two others go on or rethrow.
BuildInstructions(p) ==
    LET c == calls[p]
        r == createAssociatedTokenAccountInstructions(
                 Payer, c.owner, c.mint, DefaultIdempotent(c.idempotent))
    IN /\ c.pc = "instructions"
       /\ calls' = [calls EXCEPT ![p] =
              IF ~r.ok
              THEN [c EXCEPT !.pc = "failed", !.error = r.error]
              ELSE [c EXCEPT !.instructions = r.instructions,
                             !.associatedTokenAddress = r.associatedTokenAddress,
                             !.pc = IF c.fn = "createAssociatedTokenAccountInstructions"
                                    THEN "returned" ELSE "blockhash"]]
       /\ UNCHANGED <<accounts, pending, status, created, nCalls>>

\* await rpc.getLatestBlockhash().send()
GetLatestBlockhash(p) ==
    LET c == calls[p] IN
    /\ c.pc = "blockhash"
    /\ calls' = [calls EXCEPT ![p] = [c EXCEPT !.blockhashes = @ + 1, !.pc = "sign"]]
    /\ UNCHANGED <<accounts, pending, status, created, nCalls>>

\* The message is assembled and signed; the signature is the transaction's.
SignTransaction(p) ==
    LET c == calls[p] IN
    /\ c.pc = "sign"
    /\ calls' = [calls EXCEPT ![p] =
           [c EXCEPT !.signs = @ + 1, !.signature = c.id, !.pc = "send"]]
    /\ UNCHANGED <<accounts, pending, status, created, nCalls>>

\* The send facility simulates the transaction (preflight) and submits it.
\* sendTransactionWithoutConfirming resolves here; sendAndConfirm waits on.
SendTransaction(p) ==
    LET c == calls[p]
        tx == [sig |-> c.signature, instructions |-> c.instructions]
        sim == ExecTransaction(accounts, tx)
    IN /\ c.pc = "send"
       /\ IF ~sim.ok
          THEN /\ calls' = [calls EXCEPT ![p] =
                      [c EXCEPT !.sends = @ + 1, !.thrown = PREFLIGHT_FAILURE,
                                !.error = CatchSendError(PREFLIGHT_FAILURE),
                                !.pc = AfterSendError]]
               /\ UNCHANGED pending
          ELSE /\ calls' = [calls EXCEPT ![p] =
                      [c EXCEPT !.sends = @ + 1,
                                !.pc = AfterSend(c.fn)]]
               /\ pending' = pending \cup {tx}
       /\ UNCHANGED <<accounts, status, created, nCalls>>

\* The cluster processes a submitted transaction.
ProcessTransaction(tx) ==
    LET r == ExecTransaction(accounts, tx) IN
    /\ tx \in pending
    /\ pending' = pending \ {tx}
    /\ accounts' = r.accounts
    /\ status' = [status EXCEPT ![tx.sig] = IF r.ok THEN "ok" ELSE "err"]
    /\ created' = IF r.accounts /= accounts /\ \E a \in Addresses :
                          ~accounts[a].exists /\ r.accounts[a].exists
                   THEN created \cup {tx.sig} ELSE created
    /\ UNCHANGED <<calls, nCalls>>

\* sendAndConfirm learns the outcome of its transaction.
ConfirmTransaction(p) ==
    LET c == calls[p] IN
    /\ c.pc = "confirming"
    /\ status[c.signature] /= "none"
    /\ calls' = [calls EXCEPT ![p] =
           IF status[c.signature] = "ok"
           THEN [c EXCEPT !.pc = "returned"]
           ELSE [c EXCEPT !.thrown = TRANSACTION_ERROR,
                          !.error = CatchSendError(TRANSACTION_ERROR),
                          !.pc = AfterSendError]]
    /\ UNCHANGED <<accounts, pending, status, created, nCalls>>

\* The send facility fails for a reason of its own (the node is unreachable):
\* nothing was simulated and nothing submitted.
SendTransportFailure(p) ==
    LET c == calls[p] IN
    /\ c.pc = "send"
    /\ calls' = [calls EXCEPT ![p] =
           [c EXCEPT !.sends = @ + 1, !.thrown = TRANSPORT_ERROR,
                     !.error = CatchSendError(TRANSPORT_ERROR),
                     !.pc = AfterSendError]]
    /\ UNCHANGED <<accounts, pending, status, created, nCalls>>

---------------------------------------------------------------------------
(* Initial ledgers: at most MaxPreExisting token accounts are already there *)

PreExistingAccount(a, st) ==
    [exists |-> TRUE, programAddress |-> a[3], owner |-> a[1], mint |-> a[2],
     amount |-> PreExistingAmount, state |-> st, creator |-> 0]

\* The associated token accounts a ledger can hold: for an owner and a mint
\* that a token program owns, at the address of that program.
AtaAddresses == {a \in Addresses : a[1] \in Owners /\ a = LedgerAta(a[1], a[2])}

InitialStates(a) ==
    IF MintAccount(a[2]).data.defaultState = "Frozen"
    THEN {"Initialized", "Frozen"} ELSE {"Initialized"}

Init ==
    /\ \E S \in SUBSET AtaAddresses :
          /\ Cardinality(S) <= MaxPreExisting
          /\ \E st \in [S -> {"Initialized", "Frozen"}] :
                /\ \A a \in S : st[a] \in InitialStates(a)
                /\ accounts = [a \in Addresses |->
                       IF a \in S THEN PreExistingAccount(a, st[a]) ELSE NoAccount]
    /\ pending = {}
    /\ status = [s \in Signatures |-> "none"]
    /\ created = {}
    /\ calls = [p \in Procs |-> IdleCall]
    /\ nCalls = 0

\* What a running call and the cluster do, whoever made the call.
Step ==
    \/ \E p \in Procs : BuildInstructions(p)
    \/ \E p \in Procs : GetLatestBlockhash(p)
    \/ \E p \in Procs : SignTransaction(p)
    \/ \E p \in Procs : SendTransaction(p)
    \/ \E tx \in pending : ProcessTransaction(tx)
    \/ \E p \in Procs : ConfirmTransaction(p)

Next ==
    \/ \E p \in Procs, fn \in Functions, owner \in Owners, mint \in Mints,
          arg \in IdempotentArgs : Call(p, fn, owner, mint, arg)
    \/ Step

Spec == Init /\ [][Next]_vars

\* Callers of createAndConfirmAssociatedTokenAccount alone, calling again and again.
ConfirmNext ==
    \/ \E p \in Procs, owner \in Owners, mint \in Mints, arg \in IdempotentArgs :
          CallAndConfirm(p, owner, mint, arg)
    \/ Step

ConfirmSpec == Init /\ [][ConfirmNext]_vars

\* The same callers when the send facility may also fail on its own.
FaultNext ==
    \/ Next
    \/ \E p \in Procs : SendTransportFailure(p)

FaultSpec == Init /\ [][FaultNext]_vars

---------------------------------------------------------------------------
(* Properties *)

Kinds(ixs) == [i \in 1..Len(ixs) |-> ixs[i].kind]

\* The call's mint is owned by one of the two token programs.
OnTokenMint(c) ==
    /\ MintAccount(c.mint).exists
    /\ MintAccount(c.mint).programAddress \in TokenPrograms

OnTokenAclMint(c) ==
    /\ MintAccount(c.mint).exists
    /\ MintAccount(c.mint).programAddress = TOKEN_2022_PROGRAM_ADDRESS
    /\ MintAccount(c.mint).data.tokenAcl

\* createAssociatedTokenAccountInstructions has returned to the call.
HasInstructions(c) == c.pc \notin {"idle", "instructions"} /\ OnTokenMint(c)

AndConfirm(c) == c.fn = "createAndConfirmAssociatedTokenAccount"
WithoutConfirm(c) == c.fn = "createAssociatedTokenAccount"

\* The associated token account existed when the call was made.
ExistedAtCall(c) == c.pre >= 0

\* C1: the instruction list returned for a mint is [create-ATA] for a Token
\* Program mint and for a Token-2022 mint that is not Token-ACL, and
\* [create-ATA, permissionless-thaw] for a Token-ACL mint; nothing else.
C1_InstructionsByVariant ==
    \A p \in Procs :
        LET c == calls[p] IN
        HasInstructions(c) =>
            IF OnTokenAclMint(c)
            THEN Kinds(c.instructions) \in
                     {<<"create", "thaw">>, <<"createIdempotent", "thaw">>}
            ELSE Kinds(c.instructions) \in {<<"create">>, <<"createIdempotent">>}

C1_Witness ==
    /\ calls["a"].pc = "returned" /\ calls["a"].mint = "mintAcl"
    /\ Len(calls["a"].instructions) = 2
    /\ calls["b"].pc = "returned" /\ calls["b"].mint = "mintKeg"
    /\ Len(calls["b"].instructions) = 1

\* C2: when createAndConfirmAssociatedTokenAccount has returned, the account
\* at the returned address exists, is owned by the mint's token program, has
\* the owner and the mint of the call, has amount 0 if this call created it,
\* and is Initialized (thawed) for a Token-ACL mint.
C2_ConfirmedAccount ==
    \A p \in Procs :
        LET c == calls[p]
            a == c.associatedTokenAddress
        IN (AndConfirm(c) /\ c.pc = "returned") =>
              /\ a \in Addresses
              /\ accounts[a].exists
              /\ accounts[a].programAddress = MintAccount(c.mint).programAddress
              /\ accounts[a].owner = c.owner
              /\ accounts[a].mint = c.mint
              /\ (accounts[a].creator = c.id => accounts[a].amount = 0)
              /\ (OnTokenAclMint(c) => accounts[a].state = "Initialized")

C2_Witness ==
    \E p \in Procs :
        /\ AndConfirm(calls[p]) /\ calls[p].pc = "returned"
        /\ calls[p].mint = "mintAcl"
        /\ calls[p].associatedTokenAddress \in Addresses
        /\ accounts[calls[p].associatedTokenAddress].creator = calls[p].id
        /\ accounts[calls[p].associatedTokenAddress].state = "Initialized"

\* C3: createAndConfirmAssociatedTokenAccount called with idempotent = true
\* for an account that already exists never throws, however often it is
\* repeated: its transaction is never rejected and what it returns is the
\* signature and the address of that account.
C3_IdempotentRepeat ==
    \A p \in Procs :
        LET c == calls[p] IN
        (AndConfirm(c) /\ c.idempotent = "true" /\ ExistedAtCall(c)) =>
            /\ c.pc /= "failed"
            /\ c.thrown = NoError
            /\ (c.pc = "confirming" => status[c.signature] /= "err")
            /\ (c.pc = "returned" =>
                   /\ c.signature = c.id
                   /\ c.associatedTokenAddress = LedgerAta(c.owner, c.mint)
                   /\ accounts[c.associatedTokenAddress].exists)

\* The third of three calls for one account returns: the first created it,
\* the second and the third are idempotent repeats.
C3_Witness ==
    \E p, q \in Procs :
        /\ calls[p].id = 3 /\ calls[q].id = 2
        /\ calls[p].pc = "returned" /\ calls[q].pc = "returned"
        /\ calls[p].idempotent = "true" /\ calls[q].idempotent = "true"
        /\ calls[p].mint = "mintAcl" /\ calls[q].mint = "mintAcl"
        /\ calls[p].owner = calls[q].owner
        /\ calls[p].pre = 1 /\ calls[q].pre = 1

\* C4: createAndConfirmAssociatedTokenAccount called with idempotent = false
\* (or omitted) for an account that already exists throws: it never returns
\* a result, and its transaction never reaches the cluster.
C4_NonIdempotentThrows ==
    \A p \in Procs :
        LET c == calls[p] IN
        (AndConfirm(c) /\ ~DefaultIdempotent(c.idempotent) /\ ExistedAtCall(c)) =>
            /\ c.pc \in {"instructions", "blockhash", "sign", "send", "failed"}
            /\ (c.pc = "failed" => c.error = SimulationFailedError)
            /\ status[c.id] = "none"
            /\ \A tx \in pending : tx.sig /= c.id

C4_Witness ==
    \E p \in Procs :
        /\ AndConfirm(calls[p]) /\ calls[p].idempotent = "false"
        /\ calls[p].pre > 0
        /\ calls[p].mint = "mintAcl"
        /\ calls[p].pc = "failed"

\* C5: a call sends at most one signed transaction, signed once over one
\* fetched blockhash; once the send has thrown, the call has failed and
\* nothing was fetched, signed or sent a second time.
C5_NoRetry ==
    \A p \in Procs :
        LET c == calls[p] IN
        /\ c.sends <= 1 /\ c.signs <= 1 /\ c.blockhashes <= 1
        /\ Cardinality({tx \in pending : tx.sig = c.id}) <= 1
        /\ (c.thrown /= NoError =>
               /\ c.pc = "failed"
               /\ c.sends = 1 /\ c.signs = 1 /\ c.blockhashes = 1)

C5_Witness ==
    /\ WithoutConfirm(calls["a"]) /\ calls["a"].pc = "failed"
    /\ calls["a"].thrown = TRANSPORT_ERROR /\ calls["a"].sends = 1
    /\ AndConfirm(calls["b"]) /\ calls["b"].pc = "failed"
    /\ calls["b"].thrown = PREFLIGHT_FAILURE /\ calls["b"].sends = 1

\* C6: createAndConfirmAssociatedTokenAccount returns only once its
\* transaction is confirmed; createAssociatedTokenAccount returns from the
\* send itself, while its transaction is still unprocessed.
C6_ReturnAndConfirmation ==
    [][\A p \in Procs :
          (calls[p].pc /= "returned" /\ calls'[p].pc = "returned") =>
              /\ AndConfirm(calls'[p]) =>
                     status'[calls'[p].signature] = "ok"
              /\ WithoutConfirm(calls'[p]) =>
                     /\ calls[p].pc = "send"
                     /\ status'[calls'[p].signature] = "none"
                     /\ \E tx \in pending' : tx.sig = calls'[p].signature]_vars

\* createAssociatedTokenAccount has returned and the account is not there yet.
C6_Witness ==
    \E p \in Procs :
        /\ WithoutConfirm(calls[p]) /\ calls[p].pc = "returned"
        /\ calls[p].signature = calls[p].id
        /\ \E tx \in pending : tx.sig = calls[p].signature
        /\ ~accounts[calls[p].associatedTokenAddress].exists

\* C7: for a mint address that holds no account, or an account no token
\* program owns, each of the three functions fails with InvalidMintError,
\* and no address is derived, no instruction built, no blockhash fetched,
\* nothing signed and nothing sent.
C7_InvalidMint ==
    \A p \in Procs :
        LET c == calls[p] IN
        (c.pc /= "idle" /\ ~OnTokenMint(c)) =>
            /\ c.pc \in {"instructions", "failed"}
            /\ (c.pc = "failed" => c.error = InvalidMintError)
            /\ c.associatedTokenAddress = NoAddress
            /\ c.instructions = <<>>
            /\ c.blockhashes = 0 /\ c.signs = 0 /\ c.sends = 0
            /\ c.signature = 0
            /\ status[c.id] = "none"
            /\ \A tx \in pending : tx.sig /= c.id

C7_Witness ==
    /\ AndConfirm(calls["a"]) /\ calls["a"].mint = "mintMissing"
    /\ calls["a"].pc = "failed" /\ calls["a"].error = InvalidMintError
    /\ WithoutConfirm(calls["b"]) /\ calls["b"].mint = "mintOther"
    /\ calls["b"].pc = "failed" /\ calls["b"].error = InvalidMintError

\* C8: when the send throws the preflight-failure error the caller receives
\* SimulationFailedError; when it throws anything else the caller receives
\* that error; either way the call fails and returns no signature.
C8_SendErrors ==
    \A p \in Procs :
        LET c == calls[p] IN
        /\ (c.thrown = PREFLIGHT_FAILURE =>
               c.pc = "failed" /\ c.error = SimulationFailedError)
        /\ (c.thrown \notin {NoError, PREFLIGHT_FAILURE} =>
               c.pc = "failed" /\ c.error = c.thrown)
        /\ (c.pc = "failed" /\ c.sends > 0 => c.thrown /= NoError)

C8_Witness ==
    /\ WithoutConfirm(calls["a"]) /\ calls["a"].pc = "failed"
    /\ calls["a"].thrown = PREFLIGHT_FAILURE
    /\ calls["a"].error = SimulationFailedError
    /\ calls["a"].signature = calls["a"].id
    /\ AndConfirm(calls["b"]) /\ calls["b"].pc = "failed"
    /\ calls["b"].thrown = TRANSPORT_ERROR
    /\ calls["b"].error = TRANSPORT_ERROR

\* C9: the create instruction is the idempotent one exactly when the
\* idempotent argument is true (omitted counts as false); the thaw
\* instruction of a Token-ACL mint carries the same flag; and the create
\* instruction, the thaw instruction and the returned address are the one
\* address derived from the owner, the mint and the mint's token program.
C9_FlagAndAddress ==
    \A p \in Procs :
        LET c == calls[p]
            ixs == c.instructions
            program == MintAccount(c.mint).programAddress
        IN HasInstructions(c) =>
              /\ Len(ixs) >= 1
              /\ (ixs[1].kind = "createIdempotent") = (c.idempotent = "true")
              /\ (ixs[1].kind = "create") = (c.idempotent /= "true")
              /\ ixs[1].tokenProgram = program
              /\ c.associatedTokenAddress =
                     findAssociatedTokenPda(c.owner, c.mint, program)
              /\ \A i \in 1..Len(ixs) :
                     /\ ixs[i].ata = c.associatedTokenAddress
                     /\ ixs[i].owner = c.owner
                     /\ ixs[i].mint = c.mint
                     /\ (ixs[i].kind = "thaw" =>
                            ixs[i].idempotent = (c.idempotent = "true"))

C9_Witness ==
    /\ calls["a"].pc = "returned" /\ calls["a"].mint = "mintAcl"
    /\ calls["a"].idempotent = "omitted"
    /\ Kinds(calls["a"].instructions) = <<"create", "thaw">>
    /\ calls["b"].pc = "returned" /\ calls["b"].mint = "mintAcl"
    /\ calls["b"].idempotent = "true"
    /\ Kinds(calls["b"].instructions) = <<"createIdempotent", "thaw">>

\* Two calls of createAndConfirmAssociatedTokenAccount for one owner and one
\* mint, with the same idempotent value, both made while the account did
\* not exist.
Racing(p, q) ==
    /\ p /= q
    /\ AndConfirm(calls[p]) /\ AndConfirm(calls[q])
    /\ OnTokenMint(calls[p])
    /\ calls[p].owner = calls[q].owner
    /\ calls[p].mint = calls[q].mint
    /\ DefaultIdempotent(calls[p].idempotent) = DefaultIdempotent(calls[q].idempotent)
    /\ ~ExistedAtCall(calls[p]) /\ ~ExistedAtCall(calls[q])

====
